---- MODULE Spec2Model ----
(***************************************************************************)
(* Authentication token lifecycle of the jwt-poc service: the signed       *)
(* access-token codec (utils), the refresh-token rotation (services), the  *)
(* login / refresh handlers and the AuthMiddleware dispatcher.             *)
(*                                                                         *)
(* Time is counted in ticks; TicksPerSecond ticks make one second, so that *)
(* the clock (time.Now) is finer than the whole-second expiry carried by   *)
(* an access token (jwt.NumericDate).                                      *)
(***************************************************************************)
EXTENDS Integers, Sequences, FiniteSets, TLC

VARIABLES
    now,            \* the wall clock, in ticks
    secret,         \* os.Getenv("SECRET_KEY")
    users,          \* table users
    apiKeys,        \* table api_keys
    refreshTokens,  \* table refresh_tokens
    nextId,         \* next auto-increment primary key of refresh_tokens
    nextUuid,       \* next value uuid.New() returns
    proc,           \* the requests in flight on /auth/login and /auth/refresh
    log,            \* the completed /auth calls that got past their first lookup, in completion order
    issued,         \* the access tokens handed out, with the arguments of their issue
    obs,            \* the observed call and its result: a call that changes no state
    faultsLeft      \* how many store calls may still fail with an infrastructure error

vars == <<now, secret, users, apiKeys, refreshTokens, nextId, nextUuid, proc, log,
          issued, obs, faultsLeft>>

----------------------------------------------------------------------------
\* Bounds of the model
TicksPerSecond == 2
MaxCalls == 3
MaxFaults == 1
MaxIssued == 2
\* the store calls that fail during an outage of the store
MaxOutage == 2

\* Program constants
AccessTTLSeconds == 15 * 60
RefreshTTLSeconds == 30 * 24 * 3600
ExpiresIn == 15 * 60
\* c.FormValue("refresh_token") of a request without the field, and a value no
\* uuid.New() call returned
EmptyToken == 0
UnknownToken == 0 - 1
StatusOK == 200
StatusBadRequest == 400
StatusUnauthorized == 401
StatusInternalServerError == 500

AccessTTL == AccessTTLSeconds * TicksPerSecond
RefreshTTL == RefreshTTLSeconds * TicksPerSecond

Procs == {"p1", "p2"}
Secrets == {"", "s3cr3t"}
Roles == {"admin", "user"}
InitUsers ==
    { [ID |-> 1, Username |-> "alice", PasswordHash |-> [hash |-> "pw-a"], Role |-> "admin"],
      [ID |-> 2, Username |-> "bob", PasswordHash |-> [hash |-> "pw-b"], Role |-> "user"] }
InitApiKeys ==
    { [Key |-> "key-live", UserID |-> 2, Client |-> "billing", Scope |-> "read", IsActive |-> TRUE],
      [Key |-> "key-off", UserID |-> 1, Client |-> "legacy", Scope |-> "write", IsActive |-> FALSE] }
UserIDs == {u.ID : u \in InitUsers}

----------------------------------------------------------------------------
\* The signed token codec (package utils, github.com/golang-jwt/jwt/v5)

\* The signing methods jwt/v5 registers (a sample of each family) and one it does not
HmacAlgs == {"HS256", "HS384", "HS512"}
RegisteredAlgs == HmacAlgs \cup {"RS256", "none"}
NoExp == 0 - 1

\* jwt.NewNumericDate: the time truncated to jwt.TimePrecision (one second), in seconds
NumericDate(t) == t \div TicksPerSecond

\* A token string is the sequence of its "."-separated segments
Header(alg) == [alg |-> alg, typ |-> "JWT"]
ClaimsOf(userID, role, exp) == [user_id |-> userID, role |-> role, exp |-> exp]
SigningString(parts) == <<parts[1], parts[2]>>
Hmac(alg, key, signingString) == [alg |-> alg, key |-> key, msg |-> signingString]
SignedString(alg, claims, key) ==
    LET ss == <<Header(alg), claims>>
    IN  <<ss[1], ss[2], Hmac(alg, key, ss)>>

\* Faulty variant of GenerateAccessToken: the role of the caller is not encoded
GenerateAccessTokenRoleLost(userID, role, t, key) ==
    SignedString("HS256", ClaimsOf(userID, "user", NumericDate(t + AccessTTL)), key)

GenerateAccessToken(userID, role, t, key) ==
    SignedString("HS256", ClaimsOf(userID, role, NumericDate(t + AccessTTL)), key)

IsHeaderSegment(s) == DOMAIN s = {"alg", "typ"}
IsClaimsSegment(s) == DOMAIN s = {"user_id", "role", "exp"}
\* A signature segment decodes when it is base64url: a MAC, or any other bytes [raw |-> n]
IsSignatureSegment(s) == DOMAIN s \in {{"alg", "key", "msg"}, {"raw"}}

\* Faulty variant of MethodVerify: the signature bytes are not compared
MethodVerifyAny(alg, signingString, sig, key) == alg \in HmacAlgs

\* SigningMethod.Verify with the []byte key the key function returns
MethodVerify(alg, signingString, sig, key) ==
    IF alg \in HmacAlgs
    THEN sig = Hmac(alg, key, signingString)
    ELSE FALSE

\* Faulty variant of ClaimsValid: the claims are valid only while a refresh token of
\* the user is stored
ClaimsValidWhileSession(claims, t) ==
    /\ \/ claims.exp = NoExp
       \/ t < claims.exp * TicksPerSecond
    /\ \E r \in refreshTokens : r.UserID = claims.user_id

\* Faulty variant of ClaimsValid: the expiry instant itself is still accepted
ClaimsValidInclusive(claims, t) ==
    \/ claims.exp = NoExp
    \/ t <= claims.exp * TicksPerSecond

\* Validator.Validate: only exp is set by this program; it is checked when present
ClaimsValid(claims, t) ==
    \/ claims.exp = NoExp
    \/ t < claims.exp * TicksPerSecond

\* jwt.ParseWithClaims and the token.Valid test of ValidateJWT; tokenString is the
\* sequence of atoms after the scheme, a JWT being one atom [tok |-> segments]
ValidateJWT(tokenString, t, key) ==
    IF \/ Len(tokenString) # 1
       \/ DOMAIN tokenString[1] # {"tok"}
    THEN [ok |-> FALSE, err |-> "malformed"]
    ELSE LET parts == tokenString[1].tok
         IN  IF \/ Len(parts) # 3
                \/ ~IsHeaderSegment(parts[1])
                \/ ~IsClaimsSegment(parts[2])
             THEN [ok |-> FALSE, err |-> "malformed"]
             ELSE IF parts[1].alg \notin RegisteredAlgs
             THEN [ok |-> FALSE, err |-> "unverifiable"]
             ELSE IF ~IsSignatureSegment(parts[3])
             THEN [ok |-> FALSE, err |-> "malformed"]
             ELSE IF ~MethodVerify(parts[1].alg, SigningString(parts), parts[3], key)
             THEN [ok |-> FALSE, err |-> "signature is invalid"]
             ELSE IF ~ClaimsValid(parts[2], t)
             THEN [ok |-> FALSE, err |-> "token is expired"]
             ELSE [ok |-> TRUE, UserID |-> parts[2].user_id, Role |-> parts[2].role]

----------------------------------------------------------------------------
\* The dispatcher (package middlewares)

\* A header value is a sequence of atoms: words [w |-> ..] (the space and the tab are
\* words of their own) and tokens [tok |-> segments]
W(s) == [w |-> s]
Tok(t) == [tok |-> t]
SP == W(" ")
TAB == W("\t")

Lower(s) ==
    CASE s \in {"Bearer", "BEARER", "bearer"} -> "bearer"
      [] s \in {"Basic", "basic"} -> "basic"
      [] OTHER -> s

\* Faulty variant of EqualFold: the letter case has to match
EqualFoldExact(a, word) ==
    /\ Len(a) = 1
    /\ DOMAIN a[1] = {"w"}
    /\ a[1].w = word

\* strings.EqualFold(a, word) for a one-word string
EqualFold(a, word) ==
    /\ Len(a) = 1
    /\ DOMAIN a[1] = {"w"}
    /\ Lower(a[1].w) = Lower(word)

\* Faulty variant of SplitN2: strings.Split(s, " "), a cut at every space
SplitEverySpace(s) ==
    LET spaces == {i \in 1..Len(s) : s[i] = SP}
        nth(k) == IF k = 0 THEN 0
                  ELSE IF k > Cardinality(spaces) THEN Len(s) + 1
                  ELSE CHOOSE i \in spaces : Cardinality({j \in spaces : j < i}) = k - 1
    IN  [k \in 1..(Cardinality(spaces) + 1) |-> SubSeq(s, nth(k - 1) + 1, nth(k) - 1)]

\* strings.SplitN(s, " ", 2): cut at the first space, if there is one
SplitN2(s) ==
    LET spaces == {i \in 1..Len(s) : s[i] = SP}
    IN  IF spaces = {}
        THEN <<s>>
        ELSE LET i == CHOOSE j \in spaces : \A k \in spaces : j <= k
             IN  <<SubSeq(s, 1, i - 1), SubSeq(s, i + 1, Len(s))>>

ZeroLocals == [authType |-> "", userID |-> 0, role |-> "", clientID |-> "", scope |-> ""]

\* Faulty variant of Rejected: the error is written and the next handler runs all the same
RejectedThenNext(status, error, jwtChecked, keyQueried) ==
    [next |-> TRUE, status |-> status, error |-> error, locals |-> ZeroLocals, set |-> {},
     jwtChecked |-> jwtChecked, keyQueried |-> keyQueried]

\* return c.Status(status).JSON(fiber.Map{"error": error}): c.Next is not called
Rejected(status, error, jwtChecked, keyQueried) ==
    [next |-> FALSE, status |-> status, error |-> error, locals |-> ZeroLocals, set |-> {},
     jwtChecked |-> jwtChecked, keyQueried |-> keyQueried]

\* Faulty variant of Passed: the next handler runs without authType in the context
PassedUnmarked(locals, set, jwtChecked, keyQueried) ==
    [next |-> TRUE, status |-> StatusOK, error |-> "",
     locals |-> [locals EXCEPT !.authType = ""], set |-> set \ {"authType"},
     jwtChecked |-> jwtChecked, keyQueried |-> keyQueried]

Passed(locals, set, jwtChecked, keyQueried) ==
    [next |-> TRUE, status |-> StatusOK, error |-> "", locals |-> locals, set |-> set,
     jwtChecked |-> jwtChecked, keyQueried |-> keyQueried]

\* Faulty variant of FindApiKey: the records as they were when the program started
FindApiKeyCached(keys, apiKeyHeader) ==
    {k \in InitApiKeys : k.Key = apiKeyHeader /\ k.IsActive}

\* config.DB.Where("key = ? AND is_active = ?", apiKeyHeader, true).First(&apiKey)
FindApiKey(keys, apiKeyHeader) == {k \in keys : k.Key = apiKeyHeader /\ k.IsActive}

\* Faulty variant of BearerBranch: the error of ValidateJWT is sent to the caller
BearerBranchLeaksReason(authHeader, t, key) ==
    LET parts == SplitN2(authHeader)
    IN  IF Len(parts) # 2 \/ ~EqualFold(parts[1], "Bearer")
        THEN Rejected(StatusUnauthorized, "Invalid or malformed Authorization header",
                      FALSE, FALSE)
        ELSE LET claims == ValidateJWT(parts[2], t, key)
             IN  IF ~claims.ok
                 THEN Rejected(StatusUnauthorized, claims.err, TRUE, FALSE)
                 ELSE Passed([ZeroLocals EXCEPT !.userID = claims.UserID,
                                                !.role = claims.Role,
                                                !.authType = "JWT"],
                             {"userID", "role", "authType"}, TRUE, FALSE)

\* AuthMiddleware, the branch of a non-empty Authorization header
BearerBranch(authHeader, t, key) ==
    LET parts == SplitN2(authHeader)
    IN  IF Len(parts) # 2 \/ ~EqualFold(parts[1], "Bearer")
        THEN Rejected(StatusUnauthorized, "Invalid or malformed Authorization header",
                      FALSE, FALSE)
        ELSE LET claims == ValidateJWT(parts[2], t, key)
             IN  IF ~claims.ok
                 THEN Rejected(StatusUnauthorized, "Invalid or expired JWT", TRUE, FALSE)
                 ELSE Passed([ZeroLocals EXCEPT !.userID = claims.UserID,
                                                !.role = claims.Role,
                                                !.authType = "JWT"],
                             {"userID", "role", "authType"}, TRUE, FALSE)

\* Faulty variant of ApiKeyBranch: a key that is stored but inactive is told apart
ApiKeyBranchTellsInactive(apiKeyHeader, keys, dbOk) ==
    IF ~dbOk
    THEN Rejected(StatusInternalServerError, "Internal server error", FALSE, TRUE)
    ELSE IF FindApiKey(keys, apiKeyHeader) = {}
    THEN IF \E k \in keys : k.Key = apiKeyHeader
         THEN Rejected(StatusUnauthorized, "API key is inactive", FALSE, TRUE)
         ELSE Rejected(StatusUnauthorized, "Invalid or inactive API key", FALSE, TRUE)
    ELSE LET apiKey == CHOOSE k \in FindApiKey(keys, apiKeyHeader) : TRUE
         IN  Passed([ZeroLocals EXCEPT !.clientID = apiKey.Client,
                                       !.scope = apiKey.Scope,
                                       !.userID = apiKey.UserID,
                                       !.authType = "APIKey"],
                    {"clientID", "scope", "userID", "authType"}, FALSE, TRUE)

\* Faulty variant of ApiKeyBranch: the scope of the key is not stored in the context
ApiKeyBranchNoScope(apiKeyHeader, keys, dbOk) ==
    IF ~dbOk
    THEN Rejected(StatusInternalServerError, "Internal server error", FALSE, TRUE)
    ELSE IF FindApiKey(keys, apiKeyHeader) = {}
    THEN Rejected(StatusUnauthorized, "Invalid or inactive API key", FALSE, TRUE)
    ELSE LET apiKey == CHOOSE k \in FindApiKey(keys, apiKeyHeader) : TRUE
         IN  Passed([ZeroLocals EXCEPT !.clientID = apiKey.Client,
                                       !.userID = apiKey.UserID,
                                       !.authType = "APIKey"],
                    {"clientID", "userID", "authType"}, FALSE, TRUE)

\* AuthMiddleware, the branch of a non-empty api-key header; dbOk is FALSE when the
\* store answers the query with an error other than gorm.ErrRecordNotFound
ApiKeyBranch(apiKeyHeader, keys, dbOk) ==
    IF ~dbOk
    THEN Rejected(StatusInternalServerError, "Internal server error", FALSE, TRUE)
    ELSE IF FindApiKey(keys, apiKeyHeader) = {}
    THEN Rejected(StatusUnauthorized, "Invalid or inactive API key", FALSE, TRUE)
    ELSE LET apiKey == CHOOSE k \in FindApiKey(keys, apiKeyHeader) : TRUE
         IN  Passed([ZeroLocals EXCEPT !.clientID = apiKey.Client,
                                       !.scope = apiKey.Scope,
                                       !.userID = apiKey.UserID,
                                       !.authType = "APIKey"],
                    {"clientID", "scope", "userID", "authType"}, FALSE, TRUE)

MissingAuthentication ==
    Rejected(StatusUnauthorized, "Missing authentication (JWT or API Key)", FALSE, FALSE)

\* Faulty variant of AuthMiddleware: the api-key store is queried with an empty header too
AuthMiddlewareQueryAlways(authHeader, apiKeyHeader, t, key, keys, dbOk) ==
    IF authHeader # <<>>
    THEN BearerBranch(authHeader, t, key)
    ELSE ApiKeyBranch(apiKeyHeader, keys, dbOk)

\* Faulty variant of AuthMiddleware: the api-key header is looked at first
AuthMiddlewareKeyFirst(authHeader, apiKeyHeader, t, key, keys, dbOk) ==
    IF apiKeyHeader # ""
    THEN ApiKeyBranch(apiKeyHeader, keys, dbOk)
    ELSE IF authHeader # <<>>
    THEN BearerBranch(authHeader, t, key)
    ELSE MissingAuthentication

\* Faulty variant of AuthMiddleware: a rejected Authorization header falls through to
\* the api-key header
AuthMiddlewareFallThrough(authHeader, apiKeyHeader, t, key, keys, dbOk) ==
    IF authHeader # <<>> /\ (BearerBranch(authHeader, t, key).next \/ apiKeyHeader = "")
    THEN BearerBranch(authHeader, t, key)
    ELSE IF apiKeyHeader # ""
    THEN ApiKeyBranch(apiKeyHeader, keys, dbOk)
    ELSE MissingAuthentication

\* AuthMiddleware
AuthMiddleware(authHeader, apiKeyHeader, t, key, keys, dbOk) ==
    IF authHeader # <<>>
    THEN BearerBranch(authHeader, t, key)
    ELSE IF apiKeyHeader # ""
    THEN ApiKeyBranch(apiKeyHeader, keys, dbOk)
    ELSE MissingAuthentication

----------------------------------------------------------------------------
\* What a client can present

IssuedTokens == {i.token : i \in issued}
GuessedKey == "guess"

\* An issued token with its signature replaced: other bytes, a MAC under a guessed
\* key, the signature of another issued token
ChangedSignature(p) ==
    {<<p[1], p[2], s>> :
        s \in ({[raw |-> 1], Hmac(p[1].alg, GuessedKey, SigningString(p))}
               \cup {q[3] : q \in IssuedTokens}) \ {p[3]}}

\* An issued token with its payload changed and its signature kept
ChangedPayload(p) ==
    {<<p[1], c, p[3]>> :
        c \in ({[p[2] EXCEPT !.user_id = u] : u \in UserIDs}
               \cup {[p[2] EXCEPT !.role = r] : r \in Roles}
               \cup {[p[2] EXCEPT !.exp = e] : e \in {p[2].exp + 1, NoExp}}) \ {p[2]}}

\* An issued token with the algorithm of its header changed and its signature kept
ChangedHeader(p) == {<<Header(a), p[2], p[3]>> : a \in {"none", "HS384"}}

\* Tokens made by a holder of the secret with another algorithm named in the header
OtherAlgs == (RegisteredAlgs \cup {"XS256"}) \ {"HS256"}
SignedWithOtherAlg(t, key) ==
    {SignedString(a, ClaimsOf(1, "admin", NumericDate(t + AccessTTL)), key) : a \in OtherAlgs}
    \cup {<<Header("none"), ClaimsOf(1, "admin", NumericDate(t + AccessTTL)), [raw |-> 0]>>}

\* Strings that are no three-segment token
Malformed(p) == {<<p[1], p[2]>>, <<[junk |-> 1], p[2], p[3]>>, <<p[1], p[2], [junk |-> 1]>>}

TokenCandidates ==
    IssuedTokens
    \cup UNION {ChangedSignature(p) \cup ChangedPayload(p) \cup ChangedHeader(p) \cup Malformed(p) :
                p \in IssuedTokens}
    \cup SignedWithOtherAlg(now, secret)

\* Authorization header values: absent, "Bearer <token>" for every candidate, and for
\* the issued tokens the other schemes, separators and part counts
HeaderCandidates ==
    {<<>>, <<W("Bearer")>>, <<W("Bearer"), SP, W("a"), SP, W("b")>>,
     <<W("Basic"), SP, W("dXNlcjpwdw")>>}
    \cup {<<W("Bearer"), SP, Tok(t)>> : t \in TokenCandidates}
    \cup UNION {{<<W("bearer"), SP, Tok(t)>>, <<W("BEARER"), SP, Tok(t)>>,
                 <<W("Basic"), SP, Tok(t)>>, <<Tok(t)>>, <<W("Bearer"), TAB, Tok(t)>>,
                 <<W("Bearer"), SP, SP, Tok(t)>>, <<W("Bearer"), SP, Tok(t), SP, W("b")>>} :
                t \in IssuedTokens}

ApiKeyHeaderCandidates == {"", "key-live", "key-off", "key-none"}

\* The outcomes a store call can have: TRUE, and FALSE (an infrastructure error) while
\* faults are left
StoreOutcomes == IF faultsLeft > 0 THEN {TRUE, FALSE} ELSE {TRUE}
Spend(dbOk) == IF dbOk THEN faultsLeft ELSE faultsLeft - 1

----------------------------------------------------------------------------
\* State machine

Idle == [pc |-> "idle"]
NoObs == [op |-> "none"]
\* The instants at which something happens: around the issue of a token (a whole second
\* and a fraction later), and around the expiry of the tokens issued then
TokenInstants == {0, 1, AccessTTL - 1, AccessTTL}
SessionInstants == {0, 1, RefreshTTL, RefreshTTL + 1}
\* A behaviour observes one call that changes no state (ValidateJWT, AuthMiddleware, a
\* login or refresh turned down at its first lookup), as its last step
Running == obs = NoObs

InitCommon ==
    /\ now = 0
    /\ secret \in Secrets
    /\ users = InitUsers
    /\ apiKeys = InitApiKeys
    /\ refreshTokens = {}
    /\ nextId = 1
    /\ nextUuid = 1
    /\ proc = [p \in Procs |-> Idle]
    /\ log = <<>>
    /\ issued = {}
    /\ obs = NoObs

Init ==
    /\ InitCommon
    /\ faultsLeft = 0

InitFault ==
    /\ InitCommon
    /\ faultsLeft = MaxFaults

\* time passes
Advance(instants) ==
    /\ Running
    /\ \E t \in instants : t > now /\ now' = t
    /\ UNCHANGED <<secret, users, apiKeys, refreshTokens, nextId, nextUuid, proc, log,
                   issued, obs, faultsLeft>>

\* utils.GenerateAccessToken(userID, role)
IssueAccess ==
    /\ Running
    /\ Cardinality(issued) < MaxIssued
    /\ \E u \in UserIDs, r \in Roles :
          issued' = issued \cup {[token |-> GenerateAccessToken(u, r, now, secret),
                                  userID |-> u, role |-> r, at |-> now]}
    /\ UNCHANGED <<now, secret, users, apiKeys, refreshTokens, nextId, nextUuid, proc, log,
                   obs, faultsLeft>>

\* utils.ValidateJWT(signedToken)
Validate ==
    /\ Running
    /\ \E t \in TokenCandidates :
          obs' = [op |-> "ValidateJWT", tokenString |-> <<Tok(t)>>, at |-> now,
                  res |-> ValidateJWT(<<Tok(t)>>, now, secret)]
    /\ UNCHANGED <<now, secret, users, apiKeys, refreshTokens, nextId, nextUuid, proc, log,
                   issued, faultsLeft>>

\* one request through AuthMiddleware
Authenticate ==
    /\ Running
    /\ \E h \in HeaderCandidates, k \in ApiKeyHeaderCandidates, dbOk \in StoreOutcomes :
          LET res == AuthMiddleware(h, k, now, secret, apiKeys, dbOk)
          IN  /\ dbOk \/ res.keyQueried
              /\ obs' = [op |-> "AuthMiddleware", authHeader |-> h, apiKeyHeader |-> k,
                         at |-> now, dbOk |-> dbOk, res |-> res]
              /\ faultsLeft' = Spend(dbOk)
    /\ UNCHANGED <<now, secret, users, apiKeys, refreshTokens, nextId, nextUuid, proc, log,
                   issued>>

----------------------------------------------------------------------------
\* Login and refresh (packages handlers and services)

\* utils.CheckPasswordHash(password, hash)
CheckPasswordHash(password, hash) == hash = [hash |-> password]

\* the credentials a client sends: right ones, a wrong password, an unknown username
LoginInputs ==
    {[username |-> "alice", password |-> "pw-a"], [username |-> "bob", password |-> "pw-b"],
     [username |-> "alice", password |-> "pw-b"], [username |-> "mallory", password |-> "pw-a"]}
\* the refresh_token form values a client can send: none, one never issued, an issued one
RefreshInputs == {EmptyToken, UnknownToken} \cup (1..(nextUuid - 1))

Started == Len(log) + Cardinality({p \in Procs : proc[p] # Idle})

\* Faulty variant of TokenPair: the response reports a lifetime of one hour
TokenPairHour(accessToken, refreshToken) ==
    [status |-> StatusOK, access_token |-> accessToken, refresh_token |-> refreshToken,
     token_type |-> "Bearer", expires_in |-> 60 * 60]

\* c.JSON(fiber.Map{...}) of LoginHandler and RefreshTokenHandler
TokenPair(accessToken, refreshToken) ==
    [status |-> StatusOK, access_token |-> accessToken, refresh_token |-> refreshToken,
     token_type |-> "Bearer", expires_in |-> ExpiresIn]
Failure(status, error) == [status |-> status, error |-> error]

\* the call of p is over: its response is logged and p is free again
Finish(p, op, arg, resp, stored) ==
    /\ log' = Append(log, [op |-> op, arg |-> arg, began |-> proc[p].began,
                            at |-> now, resp |-> resp, stored |-> stored])
    /\ proc' = [proc EXCEPT ![p] = Idle]

\* GenerateAuthToken(user): sign the access token, draw a UUID, create the record.
\* The create fails on a store error and on a duplicate token value (unique index).
\* Faulty variant of CanCreate: the token column has no unique index
CanCreateNoUnique(token, dbOk) == dbOk

CanCreate(token, dbOk) == dbOk /\ \A r \in refreshTokens : r.Token # token
NewRecord(user) ==
    [ID |-> nextId, UserID |-> user.ID, Token |-> nextUuid, ExpiryDate |-> now + RefreshTTL]
\* Faulty variant of GenerateAuthToken: the new record replaces the records of the user
GenerateAuthTokenSingleSession(user, dbOk) ==
    /\ nextUuid' = nextUuid + 1
    /\ IF CanCreate(nextUuid, dbOk)
       THEN /\ refreshTokens' = {r \in refreshTokens : r.UserID # user.ID} \cup {NewRecord(user)}
            /\ nextId' = nextId + 1
            /\ issued' = issued \cup {[token |-> GenerateAccessToken(user.ID, user.Role, now, secret),
                                        userID |-> user.ID, role |-> user.Role, at |-> now]}
       ELSE UNCHANGED <<refreshTokens, nextId, issued>>

\* Faulty variant of GenerateAuthToken: the create also clears the expired records away
GenerateAuthTokenPurgesExpired(user, dbOk) ==
    /\ nextUuid' = nextUuid + 1
    /\ IF CanCreate(nextUuid, dbOk)
       THEN /\ refreshTokens' = {r \in refreshTokens : r.ExpiryDate > now} \cup {NewRecord(user)}
            /\ nextId' = nextId + 1
            /\ issued' = issued \cup {[token |-> GenerateAccessToken(user.ID, user.Role, now, secret),
                                        userID |-> user.ID, role |-> user.Role, at |-> now]}
       ELSE UNCHANGED <<refreshTokens, nextId, issued>>

GenerateAuthToken(user, dbOk) ==
    /\ nextUuid' = nextUuid + 1
    /\ IF CanCreate(nextUuid, dbOk)
       THEN /\ refreshTokens' = refreshTokens \cup {NewRecord(user)}
            /\ nextId' = nextId + 1
            /\ issued' = issued \cup {[token |-> GenerateAccessToken(user.ID, user.Role, now, secret),
                                        userID |-> user.ID, role |-> user.Role, at |-> now]}
       ELSE UNCHANGED <<refreshTokens, nextId, issued>>

\* Faulty variant of GenerateAuthTokenReturns: the signed access token is returned with
\* the error of the create
GenerateAuthTokenKeepsAccess(user, dbOk) ==
    IF CanCreate(nextUuid, dbOk)
    THEN [accessToken |-> GenerateAccessToken(user.ID, user.Role, now, secret),
          refreshToken |-> nextUuid, err |-> FALSE]
    ELSE [accessToken |-> GenerateAccessToken(user.ID, user.Role, now, secret),
          refreshToken |-> EmptyToken, err |-> TRUE]

\* the values GenerateAuthToken(user) returns: (accessToken, refreshToken, nil), or
\* ("", "", err) when the create fails
GenerateAuthTokenReturns(user, dbOk) ==
    IF CanCreate(nextUuid, dbOk)
    THEN [accessToken |-> GenerateAccessToken(user.ID, user.Role, now, secret),
          refreshToken |-> nextUuid, err |-> FALSE]
    ELSE [accessToken |-> <<>>, refreshToken |-> EmptyToken, err |-> TRUE]

\* Faulty variant of LoginStart: an unknown username is answered 404 "User not found"
LoginStartTellsUnknown(p) ==
    /\ Running
    /\ proc[p] = Idle
    /\ Started < MaxCalls
    /\ \E arg \in LoginInputs, dbOk \in StoreOutcomes :
          LET found == {u \in users : u.Username = arg.username}
              fail(status, error) ==
                  /\ obs' = [op |-> "LoginHandler", arg |-> arg, at |-> now,
                             resp |-> Failure(status, error)]
                  /\ UNCHANGED <<proc, log>>
          IN  /\ faultsLeft' = Spend(dbOk)
              /\ IF ~dbOk
                 THEN fail(StatusInternalServerError, "Internal server error")
                 ELSE IF found = {}
                 THEN fail(404, "User not found")
                 ELSE LET user == CHOOSE u \in found : TRUE
                      IN  IF ~CheckPasswordHash(arg.password, user.PasswordHash)
                          THEN fail(StatusUnauthorized, "Invalid username or password")
                          ELSE /\ proc' = [proc EXCEPT ![p] =
                                              [pc |-> "login_generate", arg |-> arg,
                                               began |-> Len(log), user |-> user]]
                               /\ UNCHANGED <<log, obs>>
    /\ UNCHANGED <<now, secret, users, apiKeys, refreshTokens, nextId, nextUuid, issued>>

\* LoginHandler up to the password check
LoginStart(p) ==
    /\ Running
    /\ proc[p] = Idle
    /\ Started < MaxCalls
    /\ \E arg \in LoginInputs, dbOk \in StoreOutcomes :
          LET found == {u \in users : u.Username = arg.username}
              fail(status, error) ==
                  /\ obs' = [op |-> "LoginHandler", arg |-> arg, at |-> now,
                             resp |-> Failure(status, error)]
                  /\ UNCHANGED <<proc, log>>
          IN  /\ faultsLeft' = Spend(dbOk)
              /\ IF ~dbOk
                 THEN fail(StatusInternalServerError, "Internal server error")
                 ELSE IF found = {}
                 THEN fail(StatusUnauthorized, "Invalid username or password")
                 ELSE LET user == CHOOSE u \in found : TRUE
                      IN  IF ~CheckPasswordHash(arg.password, user.PasswordHash)
                          THEN fail(StatusUnauthorized, "Invalid username or password")
                          ELSE /\ proc' = [proc EXCEPT ![p] =
                                              [pc |-> "login_generate", arg |-> arg,
                                               began |-> Len(log), user |-> user]]
                               /\ UNCHANGED <<log, obs>>
    /\ UNCHANGED <<now, secret, users, apiKeys, refreshTokens, nextId, nextUuid, issued>>

\* LoginHandler from services.GenerateAuthToken(user) on
LoginGenerate(p) ==
    /\ Running
    /\ proc[p].pc = "login_generate"
    /\ \E dbOk \in StoreOutcomes :
          /\ faultsLeft' = Spend(dbOk)
          /\ GenerateAuthToken(proc[p].user, dbOk)
          /\ LET ret == GenerateAuthTokenReturns(proc[p].user, dbOk)
             IN  Finish(p, "login", proc[p].arg,
                        IF ~ret.err
                        THEN TokenPair(ret.accessToken, ret.refreshToken)
                        ELSE Failure(StatusInternalServerError, "Failed to generate tokens"),
                        FALSE)
    /\ UNCHANGED <<now, secret, users, apiKeys, obs>>

InvalidRefresh == Failure(StatusUnauthorized, "Invalid or expired refresh token")

\* Faulty variant of FindRefreshToken: a record matches at the instant of its expiry too
FindRefreshTokenInclusive(tokens, oldRefreshToken, t) ==
    {r \in tokens : r.Token = oldRefreshToken /\ r.ExpiryDate >= t}

\* Faulty variant of FindRefreshToken: the expiry date is not part of the query
FindRefreshTokenAnyAge(tokens, oldRefreshToken, t) ==
    {r \in tokens : r.Token = oldRefreshToken}

\* config.DB.Where("token = ? AND expiry_date > ?", oldRefreshToken, time.Now()).First(&oldToken)
FindRefreshToken(tokens, oldRefreshToken, t) ==
    {r \in tokens : r.Token = oldRefreshToken /\ r.ExpiryDate > t}

\* RefreshTokenHandler up to the lookup of the presented token in RefreshAndRevokeToken
RefreshStart(p) ==
    /\ Running
    /\ proc[p] = Idle
    /\ Started < MaxCalls
    /\ \E refreshToken \in RefreshInputs, dbOk \in StoreOutcomes :
          LET found == FindRefreshToken(refreshTokens, refreshToken, now)
              arg == [refresh_token |-> refreshToken]
              fail(resp) ==
                  /\ obs' = [op |-> "RefreshTokenHandler", arg |-> arg, at |-> now,
                             resp |-> resp]
                  /\ UNCHANGED <<proc, log>>
          IN  IF refreshToken = EmptyToken
              THEN /\ dbOk
                   /\ fail(Failure(StatusBadRequest, "Missing refresh token"))
                   /\ UNCHANGED faultsLeft
              ELSE /\ faultsLeft' = Spend(dbOk)
                   /\ IF ~dbOk \/ found = {}
                      THEN fail(InvalidRefresh)
                      ELSE /\ proc' = [proc EXCEPT ![p] =
                                          [pc |-> "refresh_find_user", arg |-> arg,
                                           began |-> Len(log),
                                           oldToken |-> CHOOSE r \in found : TRUE]]
                           /\ UNCHANGED <<log, obs>>
    /\ UNCHANGED <<now, secret, users, apiKeys, refreshTokens, nextId, nextUuid, issued>>

\* Faulty variant of FindUser: the user record as it was when the program started
FindUserStale(us, id) == {u \in InitUsers : u.ID = id}

\* Faulty variant of FindUser: the first user record, whatever its primary key
FindUserFirst(us, id) == {u \in us : \A v \in us : u.ID <= v.ID}

\* config.DB.First(&user, id): the record with that primary key
FindUser(us, id) == {u \in us : u.ID = id}

\* Faulty variant of RefreshFindUser: the presented token is deleted before the user is
\* looked up
RefreshFindUserRevokesFirst(p) ==
    /\ Running
    /\ proc[p].pc = "refresh_find_user"
    /\ \E dbOk \in StoreOutcomes :
          LET found == FindUser(users, proc[p].oldToken.UserID)
          IN  /\ faultsLeft' = Spend(dbOk)
              /\ IF ~dbOk \/ found = {}
                 THEN Finish(p, "refresh", proc[p].arg, InvalidRefresh, FALSE)
                 ELSE /\ proc' = [proc EXCEPT ![p] =
                                     [pc |-> "refresh_delete", arg |-> proc[p].arg,
                                      began |-> proc[p].began,
                                      oldToken |-> proc[p].oldToken,
                                      user |-> CHOOSE u \in found : TRUE]]
                      /\ UNCHANGED log
    /\ refreshTokens' = {r \in refreshTokens : r.ID # proc[p].oldToken.ID}
    /\ UNCHANGED <<now, secret, users, apiKeys, nextId, nextUuid, issued, obs>>

\* config.DB.First(&user, oldToken.UserID)
RefreshFindUser(p) ==
    /\ Running
    /\ proc[p].pc = "refresh_find_user"
    /\ \E dbOk \in StoreOutcomes :
          LET found == FindUser(users, proc[p].oldToken.UserID)
          IN  /\ faultsLeft' = Spend(dbOk)
              /\ IF ~dbOk \/ found = {}
                 THEN Finish(p, "refresh", proc[p].arg, InvalidRefresh, FALSE)
                 ELSE /\ proc' = [proc EXCEPT ![p] =
                                     [pc |-> "refresh_delete", arg |-> proc[p].arg,
                                      began |-> proc[p].began,
                                      oldToken |-> proc[p].oldToken,
                                      user |-> CHOOSE u \in found : TRUE]]
                      /\ UNCHANGED log
    /\ UNCHANGED <<now, secret, users, apiKeys, refreshTokens, nextId, nextUuid, issued, obs>>

\* Faulty variant of DeleteToken: the row stays
DeleteTokenNone(tokens, oldToken, dbOk) == tokens

\* config.DB.Delete(&oldToken): by primary key; no row is deleted when the store fails
DeleteToken(tokens, oldToken, dbOk) ==
    IF dbOk THEN {r \in tokens : r.ID # oldToken.ID} ELSE tokens

\* the Delete step of RefreshAndRevokeToken; its error is not looked at
RefreshDelete(p) ==
    /\ Running
    /\ proc[p].pc = "refresh_delete"
    /\ \E dbOk \in StoreOutcomes :
          /\ faultsLeft' = Spend(dbOk)
          /\ refreshTokens' = DeleteToken(refreshTokens, proc[p].oldToken, dbOk)
    /\ proc' = [proc EXCEPT ![p].pc = "refresh_generate"]
    /\ UNCHANGED <<now, secret, users, apiKeys, nextId, nextUuid, log, issued, obs>>

\* GenerateAuthToken(user) and the response of RefreshTokenHandler
RefreshGenerate(p) ==
    /\ Running
    /\ proc[p].pc = "refresh_generate"
    /\ \E dbOk \in StoreOutcomes :
          /\ faultsLeft' = Spend(dbOk)
          /\ GenerateAuthToken(proc[p].user, dbOk)
          /\ LET ret == GenerateAuthTokenReturns(proc[p].user, dbOk)
             IN  Finish(p, "refresh", proc[p].arg,
                        IF ~ret.err
                        THEN TokenPair(ret.accessToken, ret.refreshToken)
                        ELSE InvalidRefresh,
                        \E r \in refreshTokens : r.Token = proc[p].arg.refresh_token)
    /\ UNCHANGED <<now, secret, users, apiKeys, obs>>

Next ==
    \/ Advance(SessionInstants)
    \/ \E p \in Procs : LoginStart(p)
    \/ \E p \in Procs : LoginGenerate(p)
    \/ \E p \in Procs : RefreshStart(p)
    \/ \E p \in Procs : RefreshFindUser(p)
    \/ \E p \in Procs : RefreshDelete(p)
    \/ \E p \in Procs : RefreshGenerate(p)

\* the store answers every call
Spec == Init /\ [][Next]_vars

\* an administrator gives a user another role, outside this program
ChangeRole ==
    /\ Running
    /\ \E u \in users : \E r \in Roles \ {u.Role} :
          users' = (users \ {u}) \cup {[u EXCEPT !.Role = r]}
    /\ UNCHANGED <<now, secret, apiKeys, refreshTokens, nextId, nextUuid, proc, log, issued,
                   obs, faultsLeft>>

\* the steps of the login and refresh calls
Calls ==
    \/ \E p \in Procs : LoginStart(p)
    \/ \E p \in Procs : LoginGenerate(p)
    \/ \E p \in Procs : RefreshStart(p)
    \/ \E p \in Procs : RefreshFindUser(p)
    \/ \E p \in Procs : RefreshDelete(p)
    \/ \E p \in Procs : RefreshGenerate(p)

NextRole ==
    \/ Calls
    \/ ChangeRole

\* the store answers every call and the roles of the users change, all within an
\* instant: no token expires
SpecRole == Init /\ [][NextRole]_vars

\* up to MaxFaults store calls fail with an infrastructure error
SpecFault == InitFault /\ [][Next]_vars

NextAuth ==
    \/ Advance(TokenInstants)
    \/ IssueAccess
    \/ Validate
    \/ Authenticate

SpecAuth == InitFault /\ [][NextAuth]_vars

\* an administrator deactivates or reactivates an API key, outside this program
SetKeyActive ==
    /\ Running
    /\ \E k \in apiKeys :
          apiKeys' = (apiKeys \ {k}) \cup {[k EXCEPT !.IsActive = ~k.IsActive]}
    /\ UNCHANGED <<now, secret, users, refreshTokens, nextId, nextUuid, proc, log, issued,
                   obs, faultsLeft>>

NextKeys ==
    \/ Advance(TokenInstants)
    \/ Authenticate
    \/ SetKeyActive

\* requests through AuthMiddleware while time passes and the API keys are administered
SpecKeys == InitFault /\ [][NextKeys]_vars

\* a type assertion on a context value that is absent panics
Panic == [status |-> 0, error |-> "panic: interface conversion"]
\* c.Locals(key).(T): the keys AuthMiddleware stores hold a uint (userID) or a string
Asserts(set, keys) == keys \subseteq set

\* handlers.ProfileHandler, on the context values locals, of which the keys in set
\* were stored
ProfileHandler(locals, set) ==
    IF ~Asserts(set, {"authType"})
    THEN Panic
    ELSE IF locals.authType = "JWT"
    THEN IF ~Asserts(set, {"userID", "role"})
         THEN Panic
         ELSE [status |-> StatusOK, user_id |-> locals.userID, role |-> locals.role,
               access_by |-> locals.authType]
    ELSE IF locals.authType = "APIKey"
    THEN IF ~Asserts(set, {"clientID", "scope"})
         THEN Panic
         ELSE [status |-> StatusOK, client_id |-> locals.clientID, role |-> locals.scope,
               access_by |-> locals.authType,
               user_id |-> IF "userID" \in set THEN locals.userID ELSE 0]
    ELSE Failure(StatusUnauthorized, "Unauthorized access")

\* GET /user/profile: AuthMiddleware, then ProfileHandler when c.Next() was called
Profile ==
    /\ Running
    /\ \E h \in HeaderCandidates, k \in ApiKeyHeaderCandidates, dbOk \in StoreOutcomes :
          LET res == AuthMiddleware(h, k, now, secret, apiKeys, dbOk)
          IN  /\ dbOk \/ res.keyQueried
              /\ obs' = [op |-> "ProfileHandler", authHeader |-> h, apiKeyHeader |-> k,
                         at |-> now, dbOk |-> dbOk, res |-> res,
                         ran |-> res.next,
                         resp |-> IF res.next
                                  THEN ProfileHandler(res.locals, res.set)
                                  ELSE Failure(res.status, res.error)]
              /\ faultsLeft' = Spend(dbOk)
    /\ UNCHANGED <<now, secret, users, apiKeys, refreshTokens, nextId, nextUuid, proc, log,
                   issued>>

NextProfile ==
    \/ Advance(TokenInstants)
    \/ IssueAccess
    \/ Profile

\* requests to the profile route while tokens are issued and time passes
SpecProfile == InitFault /\ [][NextProfile]_vars

\* uuid.New() is about to return a value it has returned before
UuidRepeats ==
    /\ Running
    /\ \E u \in 1..(nextUuid - 1) : nextUuid' = u
    /\ UNCHANGED <<now, secret, users, apiKeys, refreshTokens, nextId, proc, log, issued,
                   obs, faultsLeft>>

NextCollide ==
    \/ Calls
    \/ UuidRepeats

\* the store answers every call and uuid.New() may repeat itself, all within an instant
SpecCollide == Init /\ [][NextCollide]_vars

\* the store is out for a while: up to MaxOutage store calls fail, all within an instant
InitOutage ==
    /\ InitCommon
    /\ faultsLeft = MaxOutage

SpecOutage == InitOutage /\ [][Calls]_vars

\* utils.ValidateJWT(signedToken) with a token the program handed out
ValidateIssued ==
    /\ Running
    /\ \E t \in IssuedTokens :
          obs' = [op |-> "ValidateJWT", tokenString |-> <<Tok(t)>>, at |-> now,
                  res |-> ValidateJWT(<<Tok(t)>>, now, secret)]
    /\ UNCHANGED <<now, secret, users, apiKeys, refreshTokens, nextId, nextUuid, proc, log,
                   issued, faultsLeft>>

\* one request through AuthMiddleware with "Bearer <token>", a token the program handed
\* out, and no api-key header
AuthenticateIssued ==
    /\ Running
    /\ \E t \in IssuedTokens :
          obs' = [op |-> "AuthMiddleware", authHeader |-> <<W("Bearer"), SP, Tok(t)>>,
                  apiKeyHeader |-> "", at |-> now, dbOk |-> TRUE,
                  res |-> AuthMiddleware(<<W("Bearer"), SP, Tok(t)>>, "", now, secret,
                                         apiKeys, TRUE)]
    /\ UNCHANGED <<now, secret, users, apiKeys, refreshTokens, nextId, nextUuid, proc, log,
                   issued, faultsLeft>>

\* the instant at which the access tokens issued at the start expire
StatelessInstants == {AccessTTL}
\* no record has been changed by an administrator yet
Unadministered == users = InitUsers /\ apiKeys = InitApiKeys

NextStateless ==
    \/ Advance(StatelessInstants)
    \/ Calls
    \/ Unadministered /\ ChangeRole
    \/ Unadministered /\ SetKeyActive
    \/ ValidateIssued
    \/ AuthenticateIssued

\* logins and refreshes, one administrative change of a record, and the verification of
\* the access tokens handed out
SpecStateless == Init /\ [][NextStateless]_vars

----------------------------------------------------------------------------
\* Properties of the refresh-token rotation

IsRefresh(e) == e.op = "refresh"
Succeeded(e) == e.resp.status = StatusOK
Presented(e) == e.arg.refresh_token
\* the logged call i was over when the logged call j began
Before(i, j) == i <= log[j].began
InRefresh(p) == proc[p].pc \in {"refresh_find_user", "refresh_delete", "refresh_generate"}
Stored(token) == \E r \in refreshTokens : r.Token = token
Redeemable(token) == \E r \in refreshTokens : r.Token = token /\ r.ExpiryDate > now

\* the identity a refresh token value was issued to
RECURSIVE OwnerOf(_)
OwnerOf(token) ==
    LET es == {i \in DOMAIN log : Succeeded(log[i]) /\ log[i].resp.refresh_token = token}
    IN  IF es = {}
        THEN 0
        ELSE LET e == log[CHOOSE i \in es : TRUE]
             IN  IF e.op = "login"
                 THEN (CHOOSE u \in users : u.Username = e.arg.username).ID
                 ELSE OwnerOf(Presented(e))

\* C1: of two refresh calls that overlap in time and present the same stored, unexpired
\* token value, exactly one returns a token pair and the other an error
C1_ConcurrentRefreshOneWinner ==
    \A i, j \in DOMAIN log :
        (/\ i < j
         /\ IsRefresh(log[i]) /\ IsRefresh(log[j])
         /\ Presented(log[i]) = Presented(log[j])
         /\ ~Before(i, j))
        => (Succeeded(log[i]) /\ ~Succeeded(log[j])) \/ (~Succeeded(log[i]) /\ Succeeded(log[j]))

\* C2: of refresh calls made one after the other with a stored, unexpired token value,
\* the first returns a token pair for the owner of the value and every later one fails
C2_SequentialRefresh ==
    /\ \A j \in DOMAIN log :
          (/\ IsRefresh(log[j])
           /\ \A i \in DOMAIN log \ {j} :
                 IsRefresh(log[i]) /\ Presented(log[i]) = Presented(log[j]) => Before(j, i)
           /\ \A p \in Procs :
                 InRefresh(p) /\ proc[p].arg = log[j].arg => j <= proc[p].began)
          => /\ Succeeded(log[j])
             /\ log[j].resp.access_token[2].user_id = OwnerOf(Presented(log[j]))
             /\ \A r \in refreshTokens :
                   r.Token = log[j].resp.refresh_token => r.UserID = OwnerOf(Presented(log[j]))
    /\ \A i, j \in DOMAIN log :
          (/\ IsRefresh(log[i]) /\ IsRefresh(log[j])
           /\ Presented(log[i]) = Presented(log[j])
           /\ Succeeded(log[i])
           /\ Before(i, j))
          => ~Succeeded(log[j])
    /\ \A p \in Procs : \A i \in DOMAIN log :
          (InRefresh(p) /\ IsRefresh(log[i]) /\ Succeeded(log[i]) /\ log[i].arg = proc[p].arg)
          => proc[p].began < i
    /\ obs.op = "RefreshTokenHandler" => ~Redeemable(obs.arg.refresh_token)

\* C2's case: a token value was redeemed, and a later call with it, before its expiry,
\* was turned down
C2_Witness ==
    /\ obs.op = "RefreshTokenHandler"
    /\ obs.resp.status = StatusUnauthorized
    /\ \E i \in DOMAIN log :
          /\ IsRefresh(log[i]) /\ Succeeded(log[i])
          /\ Presented(log[i]) = obs.arg.refresh_token
          /\ log[i].resp.access_token[2].user_id = OwnerOf(Presented(log[i]))
          /\ obs.at < RefreshTTL

\* C3: once a refresh call has returned a token pair, the presented token is not in the
\* store, and it was not there when the new refresh token was created, whatever the
\* store calls of the refresh returned
C3_ConsumedBeforeReissue ==
    \A i \in DOMAIN log :
        IsRefresh(log[i]) /\ Succeeded(log[i])
        => ~Stored(Presented(log[i])) /\ ~log[i].stored

----------------------------------------------------------------------------
\* Properties of the codec and of the dispatcher

IsAuth == obs.op = "AuthMiddleware"
IsValidate == obs.op = "ValidateJWT"
BearerOf(t) == <<W("Bearer"), SP, Tok(t)>>
\* the instant, in ticks, of the exp claim of a token
ExpiryOf(t) == t[2].exp * TicksPerSecond
ActiveKeys == {k.Key : k \in {a \in apiKeys : a.IsActive}}
MalformedHeader ==
    Rejected(StatusUnauthorized, "Invalid or malformed Authorization header", FALSE, FALSE)
InvalidToken == Rejected(StatusUnauthorized, "Invalid or expired JWT", TRUE, FALSE)

\* C4: a request with a valid unexpired access token and a valid active API key is
\* authenticated as JWT, with the user id and role of the token
C4_JwtPrecedence ==
    (IsAuth /\ obs.apiKeyHeader \in ActiveKeys)
    => \A i \in issued :
          (obs.authHeader = BearerOf(i.token) /\ obs.at < ExpiryOf(i.token))
          => /\ obs.res.next
             /\ obs.res.locals.authType = "JWT"
             /\ obs.res.locals.userID = i.userID
             /\ obs.res.locals.role = i.role
             /\ obs.res.set = {"userID", "role", "authType"}

\* C4's case: both credentials are valid, they belong to different identities, and the
\* request came out with the identity of the token
C4_Witness ==
    /\ IsAuth
    /\ obs.apiKeyHeader \in ActiveKeys
    /\ \E i \in issued, k \in apiKeys :
          /\ obs.authHeader = BearerOf(i.token)
          /\ k.Key = obs.apiKeyHeader
          /\ k.UserID # i.userID
          /\ obs.res.next
          /\ obs.res.locals.userID = i.userID
          /\ obs.res.locals.authType = "JWT"

\* the header is a Bearer scheme, in any letter case, then a space
StartsWithBearerSpace(h) ==
    /\ Len(h) >= 2
    /\ h[1] \in {W("Bearer"), W("bearer"), W("BEARER")}
    /\ h[2] = SP

\* C5: a non-empty Authorization header decides the request alone: the API-key store
\* is not queried, the request passes only with a well-formed header whose token is
\* valid, and it is rejected otherwise, whatever the api-key header
C5_AuthorizationDecidesAlone ==
    (IsAuth /\ obs.authHeader # <<>>)
    => /\ ~obs.res.keyQueried
       /\ faultsLeft = MaxFaults
       /\ obs.res.next <=>
             /\ StartsWithBearerSpace(obs.authHeader)
             /\ ValidateJWT(SubSeq(obs.authHeader, 3, Len(obs.authHeader)), obs.at, secret).ok
       /\ obs.res.next => obs.res.locals.authType = "JWT" /\ "clientID" \notin obs.res.set
       /\ ~obs.res.next => obs.res.status = StatusUnauthorized

\* C5's case: a token that does not verify, sent with a valid active API key, rejected
C5_Witness ==
    /\ IsAuth
    /\ obs.apiKeyHeader \in ActiveKeys
    /\ StartsWithBearerSpace(obs.authHeader)
    /\ obs.res = InvalidToken

\* C6: a token GenerateAccessToken made for an id and a role verifies, before the
\* expiry it carries, to exactly that id and that role
C6_RoundTrip ==
    IsValidate
    => \A i \in issued :
          (obs.tokenString = <<Tok(i.token)>> /\ obs.at < ExpiryOf(i.token))
          => /\ obs.res.ok
             /\ obs.res.UserID = i.userID
             /\ obs.res.Role = i.role

\* C6's case: a token issued earlier, for the admin role, was verified
C6_Witness ==
    /\ IsValidate
    /\ obs.res.ok
    /\ \E i \in issued :
          /\ obs.tokenString = <<Tok(i.token)>>
          /\ i.at < obs.at
          /\ i.role = "admin" /\ obs.res.Role = "admin"
          /\ i.userID = 2 /\ obs.res.UserID = 2

Tampered(p) == ChangedSignature(p) \cup ChangedPayload(p)

\* C7: an issued token with its signature changed, or with its payload changed and its
\* signature kept, fails ValidateJWT and authenticates no request
C7_TamperedRejected ==
    /\ IsValidate
       => \A p \in IssuedTokens : \A t \in Tampered(p) :
             obs.tokenString = <<Tok(t)>> => ~obs.res.ok
    /\ IsAuth
       => \A p \in IssuedTokens : \A t \in Tampered(p) :
             obs.authHeader = BearerOf(t) => ~obs.res.next /\ obs.res.set = {}

\* C7's case: an unexpired token of role user, its role changed to admin and its
\* signature kept, was presented and rejected
C7_Witness ==
    /\ IsAuth
    /\ ~obs.res.next
    /\ \E p \in IssuedTokens : \E t \in ChangedPayload(p) :
          /\ obs.authHeader = BearerOf(t)
          /\ p[2].role = "user" /\ t[2].role = "admin"
          /\ obs.at < ExpiryOf(p)

\* C8 as stated: a token issued at t carries expiresAt = t + 15 minutes, is rejected at
\* every now > expiresAt and accepted at every now <= expiresAt
C8_ExpiryAsStated ==
    IsValidate
    => \A i \in issued :
          (obs.tokenString = <<Tok(i.token)>> /\ i.at <= obs.at)
          => /\ ExpiryOf(i.token) = i.at + AccessTTL
             /\ obs.at > i.at + AccessTTL => ~obs.res.ok
             /\ obs.at <= i.at + AccessTTL => obs.res.ok

\* C8 amended: a token issued at t carries expiresAt = t + 15 minutes cut to a whole
\* second, is rejected at every now >= expiresAt and accepted at every earlier time
C8_ExpiryWholeSecondExclusive ==
    IsValidate
    => \A i \in issued :
          (obs.tokenString = <<Tok(i.token)>> /\ i.at <= obs.at)
          => LET expiresAt == ((i.at + AccessTTL) \div TicksPerSecond) * TicksPerSecond
             IN  /\ ExpiryOf(i.token) = expiresAt
                 /\ obs.at >= expiresAt => ~obs.res.ok
                 /\ obs.at < expiresAt => obs.res.ok

\* C8's case: a token issued a fraction after a whole second, presented at the very
\* instant of its exp claim, less than 15 minutes after its issue, was rejected
C8_Witness ==
    /\ IsValidate
    /\ ~obs.res.ok
    /\ \E i \in issued :
          /\ obs.tokenString = <<Tok(i.token)>>
          /\ obs.at = ExpiryOf(i.token)
          /\ i.at % TicksPerSecond # 0
          /\ obs.at - i.at < AccessTTL

\* C9: a token whose header names another algorithm than HS256 fails ValidateJWT
C9_OtherAlgorithmRejected ==
    (/\ IsValidate
     /\ Len(obs.tokenString[1].tok) >= 1
     /\ IsHeaderSegment(obs.tokenString[1].tok[1])
     /\ obs.tokenString[1].tok[1].alg # "HS256")
    => ~obs.res.ok

IsSpace(a) == a \in {SP, TAB}
\* the whitespace-separated parts of a header begin where a non-space atom follows a
\* space or opens the header
FieldStarts(h) == {i \in 1..Len(h) : ~IsSpace(h[i]) /\ (i = 1 \/ IsSpace(h[i - 1]))}
\* the header is exactly two whitespace-separated parts, the first one Bearer in any
\* letter case
TwoPartsBearer(h) ==
    /\ Cardinality(FieldStarts(h)) = 2
    /\ LET i == CHOOSE j \in FieldStarts(h) : \A k \in FieldStarts(h) : j <= k
       IN  /\ h[i] \in {W("Bearer"), W("bearer"), W("BEARER")}
           /\ IsSpace(h[i + 1])

\* C10 as stated: a non-empty Authorization header that is not exactly two
\* whitespace-separated parts, the first Bearer in any case, is rejected as malformed
\* and not passed to ValidateJWT
C10_MalformedAsStated ==
    (IsAuth /\ obs.authHeader # <<>> /\ ~TwoPartsBearer(obs.authHeader))
    => obs.res = MalformedHeader

\* C10 amended: a non-empty Authorization header without a space, or with another word
\* than Bearer (in any case) before its first space, is rejected as malformed and not
\* passed to ValidateJWT; with Bearer before its first space the rest goes to
\* ValidateJWT, which rejects a rest of more than one part as an invalid token
C10_MalformedAtFirstSpace ==
    (IsAuth /\ obs.authHeader # <<>>)
    => /\ ~StartsWithBearerSpace(obs.authHeader) => obs.res = MalformedHeader
       /\ StartsWithBearerSpace(obs.authHeader) => obs.res.jwtChecked
       /\ (StartsWithBearerSpace(obs.authHeader) /\ ~TwoPartsBearer(obs.authHeader))
          => obs.res = InvalidToken

\* C10's case: "Bearer a b" went to ValidateJWT and was rejected as an invalid token
C10_Witness ==
    /\ IsAuth
    /\ obs.authHeader = <<W("Bearer"), SP, W("a"), SP, W("b")>>
    /\ obs.res = InvalidToken

\* what follows the scheme and the first space of a header: parts[1] of AuthMiddleware
RestOf(h) == SubSeq(h, 3, Len(h))

\* C11: a header made of Bearer, in any letter case, a space and a token that passes
\* ValidateJWT passes as JWT with the user id and the role of the token; when what
\* follows the space fails ValidateJWT the request is rejected as an invalid token
C11_BearerTokenDecides ==
    (IsAuth /\ StartsWithBearerSpace(obs.authHeader))
    => LET claims == ValidateJWT(RestOf(obs.authHeader), obs.at, secret)
       IN  /\ claims.ok
              => obs.res = Passed([ZeroLocals EXCEPT
                                      !.userID = RestOf(obs.authHeader)[1].tok[2].user_id,
                                      !.role = RestOf(obs.authHeader)[1].tok[2].role,
                                      !.authType = "JWT"],
                                  {"userID", "role", "authType"}, TRUE, FALSE)
           /\ ~claims.ok => obs.res = InvalidToken

\* C11's case: an issued token sent under the scheme written "bearer" passed with the
\* identity it was issued to
C11_Witness ==
    /\ IsAuth
    /\ obs.res.next
    /\ \E i \in issued :
          /\ obs.authHeader = <<W("bearer"), SP, Tok(i.token)>>
          /\ obs.res.locals.authType = "JWT"
          /\ obs.res.locals.userID = i.userID
          /\ obs.res.locals.role = i.role

\* C12: a request with neither header is rejected with 401, missing credentials; the
\* token is not verified and no store is read
C12_NoCredentialsRejected ==
    (IsAuth /\ obs.authHeader = <<>> /\ obs.apiKeyHeader = "")
    => /\ ~obs.res.next
       /\ obs.res.status = StatusUnauthorized
       /\ obs.res.error = "Missing authentication (JWT or API Key)"
       /\ obs.res.set = {}
       /\ ~obs.res.jwtChecked
       /\ ~obs.res.keyQueried
       /\ faultsLeft = MaxFaults

\* C12's case: a request without credentials was turned down
C12_Witness ==
    /\ IsAuth
    /\ obs.authHeader = <<>>
    /\ obs.apiKeyHeader = ""
    /\ obs.res.status = StatusUnauthorized

\* the api-key values no record has, and the ones of the inactive records
UnknownKeys == ApiKeyHeaderCandidates \ ({""} \cup {k.Key : k \in apiKeys})
InactiveKeys == {k.Key : k \in {a \in apiKeys : ~a.IsActive}}
\* what the caller sees of a rejection
Response(res) == [status |-> res.status, error |-> res.error]

\* C13: without an Authorization header, an api-key value no record has and one of an
\* inactive record are both rejected, and the caller sees the same status and body for
\* either: 401 "Invalid or inactive API key" when the store answers
C13_UnknownAndInactiveAlike ==
    (IsAuth /\ obs.authHeader = <<>> /\ obs.apiKeyHeader \in UnknownKeys \cup InactiveKeys)
    => /\ ~obs.res.next
       /\ obs.res.set = {}
       /\ \A k \in UnknownKeys \cup InactiveKeys :
             Response(AuthMiddleware(<<>>, k, obs.at, secret, apiKeys, obs.dbOk))
                = Response(obs.res)
       /\ obs.dbOk => Response(obs.res) = [status |-> StatusUnauthorized,
                                            error |-> "Invalid or inactive API key"]

\* C13's case: the key of an inactive record was rejected, and there is a value no
\* record has to compare it with
C13_Witness ==
    /\ IsAuth
    /\ obs.authHeader = <<>>
    /\ obs.apiKeyHeader \in InactiveKeys
    /\ obs.dbOk
    /\ ~obs.res.next
    /\ UnknownKeys # {}

\* C14: without an Authorization header, an api-key value equal to the key of an active
\* record passes as APIKey with the user id, the client and the scope of that record,
\* when the store answers the query
C14_ActiveKeyAuthenticates ==
    (IsAuth /\ obs.authHeader = <<>> /\ obs.dbOk)
    => \A k \in apiKeys :
          (k.Key = obs.apiKeyHeader /\ k.IsActive)
          => obs.res = Passed([ZeroLocals EXCEPT !.clientID = k.Client,
                                                 !.scope = k.Scope,
                                                 !.userID = k.UserID,
                                                 !.authType = "APIKey"],
                              {"clientID", "scope", "userID", "authType"}, FALSE, TRUE)

\* C14's case: the key of the active record passed with the identity of that record
C14_Witness ==
    /\ IsAuth
    /\ obs.authHeader = <<>>
    /\ obs.res.next
    /\ \E k \in apiKeys :
          /\ k.Key = obs.apiKeyHeader
          /\ k.IsActive
          /\ obs.res.locals.authType = "APIKey"
          /\ obs.res.locals.userID = k.UserID
          /\ obs.res.locals.clientID = k.Client
          /\ obs.res.locals.scope = k.Scope

\* the bodies of the rejections for a malformed header, an invalid token, an invalid key
\* and missing credentials
RejectionErrors ==
    {"Invalid or malformed Authorization header", "Invalid or expired JWT",
     "Invalid or inactive API key", "Missing authentication (JWT or API Key)"}

\* C15: a request through AuthMiddleware ends either authenticated, as JWT or as APIKey,
\* or rejected; the next handler runs exactly when it is authenticated, a rejected
\* request carries no identity, and each of the four rejections has status 401 (the only
\* other rejection is the 500 of a store error)
C15_OneTerminalOutcome ==
    IsAuth
    => /\ obs.res.next <=> obs.res.locals.authType \in {"JWT", "APIKey"}
       /\ obs.res.next => obs.res.error = "" /\ "authType" \in obs.res.set
       /\ ~obs.res.next
          => /\ obs.res.set = {}
             /\ obs.res.locals = ZeroLocals
             /\ obs.res.error \in RejectionErrors \cup {"Internal server error"}
       /\ obs.res.error \in RejectionErrors => obs.res.status = StatusUnauthorized
       /\ (~obs.res.next /\ obs.dbOk) => obs.res.error \in RejectionErrors

\* C15's case: a request was rejected with 401 and the next handler did not run
C15_Witness ==
    /\ IsAuth
    /\ ~obs.res.next
    /\ obs.res.error \in RejectionErrors
    /\ obs.res.status = StatusUnauthorized
    /\ obs.res.locals.authType = ""

\* the error ValidateJWT returns for what follows the scheme of the header h
ErrOf(h, t) == ValidateJWT(RestOf(h), t, secret).err
\* the header h has the Bearer scheme and its token fails ValidateJWT at t
FailsVerification(h, t) ==
    StartsWithBearerSpace(h) /\ ~ValidateJWT(RestOf(h), t, secret).ok
\* one token for each reason of failure: a string of two segments, a token whose
\* signature is other bytes, a token signed with the secret that expired at instant 0
ReasonSamples ==
    {<<Header("HS256"), ClaimsOf(1, "admin", NoExp)>>,
     <<Header("HS256"), ClaimsOf(1, "admin", NoExp), [raw |-> 1]>>,
     SignedString("HS256", ClaimsOf(1, "admin", 0), secret)}

\* C16: whatever the reason a Bearer token fails ValidateJWT for (malformed, signature
\* mismatch, expired), the caller gets the same status and the same body: the ones a
\* malformed token, a token with a wrong signature and an expired token get
C16_FailureReasonHidden ==
    (IsAuth /\ FailsVerification(obs.authHeader, obs.at))
    => /\ \A x \in ReasonSamples :
             /\ FailsVerification(BearerOf(x), obs.at)
             /\ Response(AuthMiddleware(BearerOf(x), obs.apiKeyHeader, obs.at, secret,
                                        apiKeys, obs.dbOk))
                   = Response(obs.res)
       /\ Response(obs.res) = [status |-> StatusUnauthorized,
                               error |-> "Invalid or expired JWT"]

\* C16's case: an issued token was rejected after its expiry, and the samples fail for
\* three different reasons at that instant
C16_Witness ==
    /\ IsAuth
    /\ ~obs.res.next
    /\ \E i \in issued :
          /\ obs.authHeader = BearerOf(i.token)
          /\ ErrOf(obs.authHeader, obs.at) = "token is expired"
    /\ {ErrOf(BearerOf(x), obs.at) : x \in ReasonSamples}
          = {"malformed", "signature is invalid", "token is expired"}

----------------------------------------------------------------------------
\* Properties of the responses of the login and refresh handlers

IsRefreshObs == obs.op = "RefreshTokenHandler"
\* a refresh token value that was never issued, one a refresh call has consumed, one
\* whose record is stored and expired
NeverIssued(token) == token = UnknownToken
Consumed(token) ==
    \E i \in DOMAIN log : IsRefresh(log[i]) /\ Succeeded(log[i]) /\ Presented(log[i]) = token
Expired(token) == \E r \in refreshTokens : r.Token = token /\ r.ExpiryDate <= now
\* the call of p gets past the lookup of the presented token in this step
PassesLookup(p) == proc[p] = Idle /\ proc'[p] # Idle /\ proc'[p].pc = "refresh_find_user"

LastResp == log'[Len(log')].resp
\* a store call of the step failed with an infrastructure error
StoreFailed == faultsLeft' < faultsLeft
\* the call of p is over at the step named pc
Ends(p, pc) == proc[p].pc = pc /\ proc'[p] = Idle

\* C18: when the user a valid refresh token belongs to cannot be found or read, the
\* caller gets an internal error, another response than the one for a refresh token
\* that is not found or expired
C18_UserFailureDistinct ==
    [][\A p \in Procs :
          Ends(p, "refresh_find_user")
          => /\ LastResp.status = StatusInternalServerError
             /\ LastResp # InvalidRefresh]_vars

\* C19: on the login and refresh routes and in the dispatcher, a find that fails with
\* another error than record-not-found, or a create that fails, is answered with 500,
\* never with 401
C19_StoreFailureIs500 ==
    [][StoreFailed
       => /\ log' # log => LastResp.status = StatusInternalServerError
          /\ (obs' # obs /\ obs'.op \in {"LoginHandler", "RefreshTokenHandler"})
             => obs'.resp.status = StatusInternalServerError
          /\ (obs' # obs /\ obs'.op = "AuthMiddleware")
             => obs'.res.status = StatusInternalServerError]_vars

\* C20: GenerateAuthToken returns an access token only with the refresh token whose
\* record the same call created; when the create fails it returns the error with both
\* strings empty, nothing is handed out, and LoginHandler answers 500 without a token
C20_NoAccessTokenWithoutRecord ==
    [][\A p \in Procs :
          (Ends(p, "login_generate") \/ Ends(p, "refresh_generate"))
          => LET ret == GenerateAuthTokenReturns(proc[p].user, ~StoreFailed)
                 created == refreshTokens' \ refreshTokens
             IN  /\ ret.err <=> created = {}
                 /\ ~ret.err
                    => /\ ret.accessToken[2].user_id = proc[p].user.ID
                       /\ \E r \in created :
                             r.Token = ret.refreshToken /\ r.UserID = proc[p].user.ID
                       /\ LastResp = TokenPair(ret.accessToken, ret.refreshToken)
                 /\ ret.err
                    => /\ ret.accessToken = <<>>
                       /\ ret.refreshToken = EmptyToken
                       /\ issued' = issued
                       /\ DOMAIN LastResp = {"status", "error"}
                       /\ Ends(p, "login_generate")
                          => LastResp = Failure(StatusInternalServerError,
                                                "Failed to generate tokens")]_vars

\* C20's case: a login with the right password whose create failed was answered 500,
\* and no token was stored or handed out
C20_Witness ==
    /\ \E i \in DOMAIN log :
          /\ log[i].op = "login"
          /\ log[i].resp = Failure(StatusInternalServerError, "Failed to generate tokens")
    /\ refreshTokens = {}
    /\ issued = {}

----------------------------------------------------------------------------
\* Properties of the tokens a login and a refresh return

IsLogin(e) == e.op = "login"
\* the logged refresh j redeemed the refresh token the logged call i returned
Redeems(j, i) ==
    /\ Succeeded(log[i])
    /\ IsRefresh(log[j]) /\ Succeeded(log[j])
    /\ Presented(log[j]) = log[i].resp.refresh_token

\* C21: a login returns (A, R) and a refresh of R returns (A2, R2); whatever the time
\* between the two calls, A2 differs from A and R2 differs from R
C21_RefreshGivesNewTokens ==
    \A i, j \in DOMAIN log :
        (IsLogin(log[i]) /\ Redeems(j, i))
        => /\ log[j].resp.access_token # log[i].resp.access_token
           /\ log[j].resp.refresh_token # log[i].resp.refresh_token

\* C22: the record of a refresh token created at t carries the expiry t + 30 days; a
\* refresh gets past the lookup only with a stored value and strictly before its
\* expiry; at the expiry and later the call fails, used or not; before it, the call is
\* turned down at the lookup only when the store fails
C22_RefreshExpiry ==
    /\ [](\A r \in refreshTokens : \A i \in DOMAIN log :
             (Succeeded(log[i]) /\ log[i].resp.refresh_token = r.Token)
             => r.ExpiryDate = log[i].at + RefreshTTL)
    /\ [](IsRefreshObs
          => /\ Expired(obs.arg.refresh_token) => obs.resp = InvalidRefresh
             /\ faultsLeft = MaxFaults => ~Redeemable(obs.arg.refresh_token))
    /\ [][\A p \in Procs :
             PassesLookup(p)
             => \E r \in refreshTokens :
                   /\ r.Token = proc'[p].arg.refresh_token
                   /\ now < r.ExpiryDate
                   /\ proc'[p].oldToken = r]_vars

\* C22's case: a value no refresh had used was presented at the very instant of its
\* expiry, 30 days after the login that returned it, and turned down
C22_Witness ==
    /\ IsRefreshObs
    /\ obs.resp = InvalidRefresh
    /\ ~Consumed(obs.arg.refresh_token)
    /\ \E r \in refreshTokens :
          /\ r.Token = obs.arg.refresh_token
          /\ r.ExpiryDate = obs.at
    /\ \E i \in DOMAIN log :
          /\ IsLogin(log[i]) /\ Succeeded(log[i])
          /\ log[i].resp.refresh_token = obs.arg.refresh_token
          /\ obs.at = log[i].at + RefreshTTL

\* a refresh call presenting the value is in flight
InFlight(token) == \E p \in Procs : InRefresh(p) /\ proc[p].arg.refresh_token = token
\* the step is one of the login call of p
LoginStep(p) ==
    \/ proc[p] = Idle /\ proc'[p] # Idle /\ proc'[p].pc = "login_generate"
    \/ Ends(p, "login_generate")
    \/ obs' # obs /\ obs'.op = "LoginHandler"

RoleOf(id) == (CHOOSE u \in users : u.ID = id).Role

\* C24: the user a refresh goes on with is the record the users table holds, at the
\* lookup of the refresh, for the owner of the presented token, and the access token
\* the refresh returns carries the role of that record
C24_RefreshCarriesCurrentRole ==
    [][\A p \in Procs :
          /\ (proc[p].pc = "refresh_find_user" /\ proc'[p].pc = "refresh_delete")
             => /\ proc'[p].user \in users
                /\ proc'[p].user.ID = proc[p].oldToken.UserID
          /\ (Ends(p, "refresh_generate") /\ LastResp.status = StatusOK)
             => /\ LastResp.access_token[2].role = proc[p].user.Role
                /\ LastResp.access_token[2].user_id = proc[p].user.ID]_vars

\* C24's case: the role of a user was changed after a login; the refresh of the token
\* of that login returned an access token with the new role, not the one of the login
C24_Witness ==
    \E i, j \in DOMAIN log :
        /\ IsLogin(log[i]) /\ Redeems(j, i)
        /\ log[j].resp.access_token[2].role # log[i].resp.access_token[2].role
        /\ log[j].resp.access_token[2].role = RoleOf(log[j].resp.access_token[2].user_id)

\* C25: a request that presents only an API key passes exactly when the record of that
\* key is active at the time of the request, whatever that time and whatever the record
\* was before; a request that does not pass is rejected with 401
C25_KeyStateDecides ==
    (IsAuth /\ obs.authHeader = <<>> /\ obs.apiKeyHeader # "" /\ obs.dbOk)
    => /\ obs.res.next <=> obs.apiKeyHeader \in ActiveKeys
       /\ obs.res.next => obs.res.locals.authType = "APIKey"
       /\ ~obs.res.next => obs.res.status = StatusUnauthorized

\* C25's case: a key that was active at the start was deactivated, and a later request
\* with it was rejected
C25_Witness ==
    /\ IsAuth
    /\ obs.authHeader = <<>>
    /\ obs.at > 0
    /\ \E k \in InitApiKeys : k.Key = obs.apiKeyHeader /\ k.IsActive
    /\ obs.apiKeyHeader \notin ActiveKeys
    /\ obs.res.status = StatusUnauthorized

\* C26: whatever the refresh-token, user and API-key records are, an access token the
\* program handed out verifies exactly until the expiry it carries, with the user id and
\* the role it was issued for, in ValidateJWT and in AuthMiddleware
C26_VerificationStateless ==
    /\ IsValidate
       => \A i \in issued :
             obs.tokenString = <<Tok(i.token)>>
             => /\ obs.res.ok <=> obs.at < ExpiryOf(i.token)
                /\ obs.res.ok => obs.res.UserID = i.userID /\ obs.res.Role = i.role
    /\ IsAuth
       => \A i \in issued :
             obs.authHeader = BearerOf(i.token)
             => /\ obs.res.next <=> obs.at < ExpiryOf(i.token)
                /\ obs.res.next
                   => /\ obs.res.locals.userID = i.userID
                      /\ obs.res.locals.role = i.role
                /\ ~obs.res.keyQueried

\* C26's case: the access token of a login still authenticated after the refresh token
\* returned with it had been consumed and the role of its user had been changed
C26_Witness ==
    /\ IsAuth
    /\ obs.res.next
    /\ \E i \in DOMAIN log :
          /\ IsLogin(log[i]) /\ Succeeded(log[i])
          /\ obs.authHeader = BearerOf(log[i].resp.access_token)
          /\ Consumed(log[i].resp.refresh_token)
          /\ RoleOf(obs.res.locals.userID) # obs.res.locals.role

\* C27: with an absent or empty secret the program does not serve: no access token is
\* issued under the empty secret and none is accepted under it
C27_NoTokenUnderEmptySecret ==
    secret = ""
    => /\ issued = {}
       /\ IsValidate => ~obs.res.ok
       /\ IsAuth => obs.res.locals.authType # "JWT"

\* the time, in ticks, from the call that returned the access token to the expiry the
\* token carries
LifetimeOf(e) == ExpiryOf(e.resp.access_token) - e.at

\* C28 as stated: a successful login or refresh reports token_type "Bearer" and
\* expires_in = 900, and 900 seconds is the lifetime of the access token it returns
C28_ExpiresInAsStated ==
    \A i \in DOMAIN log :
        Succeeded(log[i])
        => /\ log[i].resp.token_type = "Bearer"
           /\ log[i].resp.expires_in = 900
           /\ LifetimeOf(log[i]) = log[i].resp.expires_in * TicksPerSecond

\* C28 amended: a successful login or refresh reports token_type "Bearer" and
\* expires_in = 900; the lifetime of the access token it returns is at most 900 seconds
\* and more than 899: the expiry is cut to a whole second
C28_ExpiresInUpperBound ==
    \A i \in DOMAIN log :
        Succeeded(log[i])
        => /\ log[i].resp.token_type = "Bearer"
           /\ log[i].resp.expires_in = 900
           /\ LifetimeOf(log[i]) <= log[i].resp.expires_in * TicksPerSecond
           /\ LifetimeOf(log[i]) > (log[i].resp.expires_in - 1) * TicksPerSecond
           /\ ExpiryOf(log[i].resp.access_token)
                 = ((log[i].at + AccessTTL) \div TicksPerSecond) * TicksPerSecond

\* C28's case: a login answered a fraction after a whole second reported 900 seconds
\* for a token that expires sooner
C28_Witness ==
    \E i \in DOMAIN log :
        /\ IsLogin(log[i]) /\ Succeeded(log[i])
        /\ log[i].at % TicksPerSecond # 0
        /\ log[i].resp.expires_in = 900
        /\ LifetimeOf(log[i]) < 900 * TicksPerSecond

\* C29: no two refresh-token records have the same token value; when GenerateAuthToken
\* draws a value that a record already has, the create fails: no record is added, no
\* token is handed out and the call is answered with an error, not a token pair
C29_TokenValuesUnique ==
    /\ [](\A r1, r2 \in refreshTokens : r1.Token = r2.Token => r1 = r2)
    /\ [][\A p \in Procs :
             ((Ends(p, "login_generate") \/ Ends(p, "refresh_generate")) /\ Stored(nextUuid))
             => /\ refreshTokens' = refreshTokens
                /\ issued' = issued
                /\ GenerateAuthTokenReturns(proc[p].user, TRUE).err
                /\ DOMAIN LastResp = {"status", "error"}]_vars

\* C29's case: with a store that answers every call, a login with the right password
\* drew a stored value and was answered 500, while a record is stored
C29_Witness ==
    /\ faultsLeft = 0
    /\ refreshTokens # {}
    /\ \E i \in DOMAIN log :
          /\ IsLogin(log[i])
          /\ log[i].resp = Failure(StatusInternalServerError, "Failed to generate tokens")

\* C30: a refresh goes on only with the record of the presented value, which belongs to
\* the identity the value was issued to; the access token a successful refresh returns
\* carries the user id of that record, and so does the record of the new refresh token
C30_RefreshOnlyForOwner ==
    /\ [](\A i \in DOMAIN log :
             (IsRefresh(log[i]) /\ Succeeded(log[i]))
             => log[i].resp.access_token[2].user_id = OwnerOf(Presented(log[i])))
    /\ [][\A p \in Procs :
             PassesLookup(p)
             => /\ proc'[p].oldToken.Token = proc'[p].arg.refresh_token
                /\ proc'[p].oldToken.UserID = OwnerOf(proc'[p].arg.refresh_token)]_vars
    /\ [][\A p \in Procs :
             (Ends(p, "refresh_generate") /\ LastResp.status = StatusOK)
             => /\ LastResp.access_token[2].user_id = proc[p].oldToken.UserID
                /\ \E r \in refreshTokens' \ refreshTokens :
                      /\ r.Token = LastResp.refresh_token
                      /\ r.UserID = proc[p].oldToken.UserID]_vars

\* C30's case: while a refresh token of another identity was stored, a refresh with a
\* token of the second user returned an access token for that second user
C30_Witness ==
    \E j \in DOMAIN log :
        /\ IsRefresh(log[j]) /\ Succeeded(log[j])
        /\ OwnerOf(Presented(log[j])) = 2
        /\ log[j].resp.access_token[2].user_id = 2
        /\ \E r \in refreshTokens : r.UserID = 1
        /\ \E r \in refreshTokens : r.Token = log[j].resp.refresh_token /\ r.UserID = 2

----------------------------------------------------------------------------
\* Properties of the refresh-token store

\* the step turns a refresh call down at the lookup of the presented token
TurnedDown == obs' # obs /\ obs'.op = "RefreshTokenHandler"
\* no other refresh call presenting the value of p overlaps the call of p
Alone(p) ==
    /\ \A q \in Procs \ {p} : ~(InRefresh(q) /\ proc[q].arg = proc[p].arg)
    /\ \A i \in DOMAIN log :
          (IsRefresh(log[i]) /\ log[i].arg = proc[p].arg) => i <= proc[p].began

\* C31: a refresh call that fails at the lookup of the presented token (unknown or
\* expired) or at the lookup of the user leaves the refresh-token store as it was; a
\* token whose user lookup failed is still stored, and still redeemable while unexpired,
\* when no other call presented it meanwhile
C31_FailedRefreshKeepsStore ==
    /\ [][TurnedDown
           => /\ refreshTokens' = refreshTokens
              /\ nextId' = nextId /\ nextUuid' = nextUuid /\ issued' = issued]_vars
    /\ [][\A p \in Procs :
             Ends(p, "refresh_find_user")
             => /\ StoreFailed
                /\ LastResp = InvalidRefresh
                /\ refreshTokens' = refreshTokens
                /\ nextId' = nextId /\ nextUuid' = nextUuid /\ issued' = issued
                /\ Alone(p)
                   => /\ proc[p].oldToken \in refreshTokens'
                      /\ proc[p].oldToken.ExpiryDate > now
                         => \E r \in refreshTokens' :
                               /\ r.Token = proc[p].arg.refresh_token
                               /\ r.ExpiryDate > now']_vars

\* C31's case: a refresh failed with a stored value although nothing was wrong with the
\* value, and a later refresh with the same value returned a token pair
C31_Witness ==
    \E i, j \in DOMAIN log :
        /\ IsRefresh(log[i]) /\ ~Succeeded(log[i])
        /\ IsRefresh(log[j]) /\ Succeeded(log[j])
        /\ Presented(log[i]) = Presented(log[j])
        /\ Before(i, j)
        /\ ~Stored(Presented(log[j]))

\* C32: when the create of the new refresh token fails in a refresh call, the call
\* returns an error and no token pair, no record is created, and the presented token
\* is not in the store any more
C32_FailedReissueRevokes ==
    [][\A p \in Procs :
          (Ends(p, "refresh_generate") /\ StoreFailed)
          => /\ LastResp = InvalidRefresh
             /\ refreshTokens' = refreshTokens
             /\ issued' = issued
             /\ \A r \in refreshTokens' : r.Token # proc[p].arg.refresh_token]_vars

\* the step is the Delete of the refresh call of p
DeleteStep(p) == proc[p].pc = "refresh_delete" /\ proc'[p].pc = "refresh_generate"

\* C33: a refresh-token record leaves the store only in the Delete step of a refresh call
\* that found that record by the presented value; no call finds an expired record, so an
\* expired record that no call in flight had found before stays in the store, and a
\* refresh call presenting it is turned down and leaves it stored
C33_OnlyRedemptionRemoves ==
    /\ [][\A r \in refreshTokens \ refreshTokens' :
             \E p \in Procs :
                /\ DeleteStep(p)
                /\ proc[p].oldToken = r
                /\ proc[p].arg.refresh_token = r.Token]_vars
    /\ [][\A p \in Procs :
             PassesLookup(p)
             => /\ proc'[p].oldToken \in refreshTokens
                /\ proc'[p].oldToken.ExpiryDate > now]_vars
    /\ [][\A r \in refreshTokens :
             (r.ExpiryDate <= now /\ ~InFlight(r.Token)) => r \in refreshTokens']_vars
    /\ [](IsRefreshObs
          => \A r \in refreshTokens :
                (r.Token = obs.arg.refresh_token /\ r.ExpiryDate <= obs.at)
                => obs.resp = InvalidRefresh)

\* C33's case: a record is in the store after its expiry, next to a record created
\* later, and a refresh call presenting its value has been turned down
C33_Witness ==
    /\ IsRefreshObs
    /\ obs.resp = InvalidRefresh
    /\ \E r, q \in refreshTokens :
          /\ r.Token = obs.arg.refresh_token
          /\ r.ExpiryDate < obs.at
          /\ q.ExpiryDate > obs.at

----------------------------------------------------------------------------
\* Properties of the profile route

IsProfile == obs.op = "ProfileHandler"

\* C34: whenever ProfileHandler runs behind AuthMiddleware, authType is stored in the
\* context as "JWT" or "APIKey" with every value the branch reads (userID and role, or
\* clientID, scope and userID): no type assertion fails, the "Unauthorized access"
\* branch is not reached, and the handler does not run for a request that the
\* middleware has answered
C34_ProfileContextComplete ==
    IsProfile
    => /\ obs.ran
          => /\ "authType" \in obs.res.set
             /\ obs.res.locals.authType \in {"JWT", "APIKey"}
             /\ obs.res.locals.authType = "JWT" => {"userID", "role"} \subseteq obs.res.set
             /\ obs.res.locals.authType = "APIKey"
                => {"clientID", "scope", "userID"} \subseteq obs.res.set
             /\ obs.resp # Panic
             /\ obs.resp.status = StatusOK
             /\ obs.resp.access_by = obs.res.locals.authType
       /\ ~obs.ran => obs.resp = Failure(obs.res.status, obs.res.error)
       /\ obs.resp # Failure(StatusUnauthorized, "Unauthorized access")

\* C34's case: the handler ran for a request with an active API key and answered with
\* the client, the scope and the user of the key
C34_Witness ==
    /\ IsProfile
    /\ obs.ran
    /\ obs.resp.status = StatusOK
    /\ obs.resp.access_by = "APIKey"
    /\ \E k \in apiKeys :
          /\ k.Key = obs.apiKeyHeader
          /\ obs.resp.client_id = k.Client
          /\ obs.resp.role = k.Scope
          /\ obs.resp.user_id = k.UserID

----------------------------------------------------------------------------
\* Properties of the login route

InvalidLogin == Failure(StatusUnauthorized, "Invalid username or password")
UnknownUsername(arg) == \A u \in users : u.Username # arg.username
WrongPassword(arg) ==
    \E u \in users : u.Username = arg.username /\ ~CheckPasswordHash(arg.password, u.PasswordHash)
\* the step answers a login at the lookup of the user or at the password check
LoginTurnedDown == obs' # obs /\ obs'.op = "LoginHandler"
\* the login of p gets past the password check in this step
PassesPassword(p) == proc[p] = Idle /\ proc'[p] # Idle /\ proc'[p].pc = "login_generate"

\* C35: a login with an unknown username and a login with a known username and a wrong
\* password are both answered 401 with the body "Invalid username or password", neither
\* gets as far as GenerateAuthToken, and neither signs an access token or creates a
\* refresh-token record
C35_LoginFailuresAlike ==
    /\ [][LoginTurnedDown
           => /\ UnknownUsername(obs'.arg) \/ WrongPassword(obs'.arg)
              /\ obs'.resp = InvalidLogin
              /\ DOMAIN obs'.resp = {"status", "error"}
              /\ refreshTokens' = refreshTokens
              /\ issued' = issued
              /\ nextId' = nextId /\ nextUuid' = nextUuid
              /\ log' = log /\ proc' = proc]_vars
    /\ [][\A p \in Procs :
             PassesPassword(p)
             => ~UnknownUsername(proc'[p].arg) /\ ~WrongPassword(proc'[p].arg)]_vars

\* C35's case: a login with a wrong password for a user who holds a refresh token was
\* answered as an unknown username is, and the store holds that one record only
C35_Witness ==
    /\ obs.op = "LoginHandler"
    /\ WrongPassword(obs.arg)
    /\ obs.resp = InvalidLogin
    /\ \E i \in DOMAIN log :
          IsLogin(log[i]) /\ Succeeded(log[i]) /\ log[i].arg.username = obs.arg.username
    /\ Cardinality(refreshTokens) = 1
    /\ Cardinality(issued) = 1

====
